---- MODULE Spec2Model ----
(***************************************************************************)
(* Model of pkg/mutation/mount_home_directory.go: the mount_home_directory *)
(* pod mutator.  Go strings are sequences of one-character strings, Go     *)
(* pointers are heap addresses (NULL for nil), an int64 is a sign and a    *)
(* canonical decimal magnitude (TLC's integers are narrower than 64 bits). *)
(***************************************************************************)
EXTENDS Integers, Sequences, FiniteSets, TLC

\* ---------------------------------------------------------------- bounds
\* Longest tail of segments put after "system:serviceaccount" in a username.
MaxTail == 3
\* Changes the external system makes to the mapping store in one behaviour.
MaxUpdates == 1
\* Invocations running at once in the concurrent specification.
MaxProcs == 2

\* ---------------------------------------------------------------- strings
S_default == <<"d", "e", "f", "a", "u", "l", "t">>
S_uid_mapping == <<"u", "i", "d", "-", "m", "a", "p", "p", "i", "n", "g">>
S_buildbot == <<"b", "u", "i", "l", "d", "-", "b", "o", "t">>
S_admin == <<"a", "d", "m", "i", "n">>
S_node == <<"s", "y", "s", "t", "e", "m", ":", "n", "o", "d", "e", ":", "d", "e", "f", "a", "u", "l", "t", ":", "b", "u", "i", "l", "d", "-", "b", "o", "t">>
S_sax == <<"s", "y", "s", "t", "e", "m", ":", "s", "e", "r", "v", "i", "c", "e", "a", "c", "c", "o", "u", "n", "t", "x", ":", "d", "e", "f", "a", "u", "l", "t", ":", "b", "u", "i", "l", "d", "-", "b", "o", "t">>
S_noColon == <<"s", "y", "s", "t", "e", "m", ":", "s", "e", "r", "v", "i", "c", "e", "a", "c", "c", "o", "u", "n", "t">>
S_1001 == <<"1", "0", "0", "1">>
S_nan == <<"n", "o", "t", "-", "a", "-", "n", "u", "m", "b", "e", "r">>
S_maxI64 == <<"9", "2", "2", "3", "3", "7", "2", "0", "3", "6", "8", "5", "4", "7", "7", "5", "8", "0", "7">>
S_maxI64p1 == <<"9", "2", "2", "3", "3", "7", "2", "0", "3", "6", "8", "5", "4", "7", "7", "5", "8", "0", "8">>
S_minI64 == <<"-", "9", "2", "2", "3", "3", "7", "2", "0", "3", "6", "8", "5", "4", "7", "7", "5", "8", "0", "8">>
S_minI64m1 == <<"-", "9", "2", "2", "3", "3", "7", "2", "0", "3", "6", "8", "5", "4", "7", "7", "5", "8", "0", "9">>
S_maxU64 == <<"1", "8", "4", "4", "6", "7", "4", "4", "0", "7", "3", "7", "0", "9", "5", "5", "1", "6", "1", "5">>
S_cutoffU64 == <<"1", "8", "4", "4", "6", "7", "4", "4", "0", "7", "3", "7", "0", "9", "5", "5", "1", "6", "2">>
S_huge == <<"9", "9", "9", "9", "9", "9", "9", "9", "9", "9", "9", "9", "9", "9", "9", "9", "9", "9", "9", "9">>

\* A Go pointer or optional value: Nil, or Some(x).  Heap addresses are pairs.
Nil == <<>>

Some(x) == <<x>>

\* *ptr
Deref(ptr) == ptr[1]

\* var configMapName = "uid-mapping"
configMapNameInit == S_uid_mapping
\* var namespace = "default"
namespaceInit == S_default
\* func (mhd mountHomeDirectory) Name() string
Name == <<"m", "o", "u", "n", "t", "_", "h", "o", "m", "e", "_", "d", "i", "r", "e", "c", "t", "o", "r", "y">>
\* the literal "system:serviceaccount:" of getServiceAccount
SAPrefix == <<"s", "y", "s", "t", "e", "m", ":", "s", "e", "r", "v", "i", "c", "e", "a", "c", "c", "o", "u", "n", "t", ":">>

\* strings.HasPrefix(s, prefix)
HasPrefix(s, prefix) ==
    /\ Len(s) >= Len(prefix)
    /\ SubSeq(s, 1, Len(prefix)) = prefix

RECURSIVE SplitFrom(_, _, _, _)
SplitFrom(s, sep, i, cur) ==
    IF i > Len(s) THEN <<cur>>
    ELSE IF s[i] = sep THEN <<cur>> \o SplitFrom(s, sep, i + 1, <<>>)
    ELSE SplitFrom(s, sep, i + 1, Append(cur, s[i]))

\* strings.Split(s, sep) for a one-character separator: "" splits into [""].
Split(s, sep) == SplitFrom(s, sep, 1, <<>>)

\* ---------------------------------------------------------------- strconv.ParseInt(s, 10, 64)
Digits == <<"0", "1", "2", "3", "4", "5", "6", "7", "8", "9">>

IsDigit(c) == \E d \in 1..10 : Digits[d] = c

DigitVal(c) == (CHOOSE d \in 1..10 : Digits[d] = c) - 1

RECURSIVE StripZeros(_)
\* the canonical magnitude: no leading zeros, <<>> for zero
StripZeros(m) ==
    IF m # <<>> /\ m[1] = "0" THEN StripZeros(Tail(m)) ELSE m

RECURSIVE LexLess(_, _)
LexLess(a, b) ==
    IF a = <<>> THEN FALSE
    ELSE IF DigitVal(a[1]) # DigitVal(b[1]) THEN DigitVal(a[1]) < DigitVal(b[1])
    ELSE LexLess(Tail(a), Tail(b))

\* a < b on canonical magnitudes
MagLess(a, b) ==
    \/ Len(a) < Len(b)
    \/ Len(a) = Len(b) /\ LexLess(a, b)

RECURSIVE ParseUintFrom(_, _, _)
\* the digit loop of strconv.ParseUint: n is the value read so far
ParseUintFrom(s, i, n) ==
    IF i > Len(s) THEN [err |-> "nil", mag |-> n]
    ELSE IF ~IsDigit(s[i]) THEN [err |-> "ErrSyntax", mag |-> <<>>]
    ELSE IF ~MagLess(n, S_cutoffU64) THEN [err |-> "ErrRange", mag |-> S_maxU64]
    ELSE LET n1 == StripZeros(Append(n, s[i]))
         IN IF MagLess(S_maxU64, n1) THEN [err |-> "ErrRange", mag |-> S_maxU64]
            ELSE ParseUintFrom(s, i + 1, n1)

ParseUint(s) ==
    IF s = <<>> THEN [err |-> "ErrSyntax", mag |-> <<>>]
    ELSE ParseUintFrom(s, 1, <<>>)

ParseIntLax(s) ==
    IF s = <<>> THEN [err |-> "ErrSyntax", neg |-> FALSE, mag |-> <<>>]
    ELSE LET neg == s[1] = "-"
             body == SelectSeq(s, IsDigit)
         IN [err |-> "nil", neg |-> neg /\ StripZeros(body) # <<>>, mag |-> StripZeros(body)]

\* strconv.ParseInt(s, 10, 64): [err, neg, mag]; the value is meaningful when err = "nil"
ParseInt(s) ==
    IF s = <<>> THEN [err |-> "ErrSyntax", neg |-> FALSE, mag |-> <<>>]
    ELSE LET neg == s[1] = "-"
             body == IF s[1] \in {"+", "-"} THEN Tail(s) ELSE s
             un == ParseUint(body)
         IN IF un.err # "nil" THEN [err |-> un.err, neg |-> FALSE, mag |-> <<>>]
            ELSE IF ~neg /\ ~MagLess(un.mag, S_maxI64p1)
                 THEN [err |-> "ErrRange", neg |-> FALSE, mag |-> S_maxI64]
            ELSE IF neg /\ MagLess(S_maxI64p1, un.mag)
                 THEN [err |-> "ErrRange", neg |-> TRUE, mag |-> S_maxI64p1]
            ELSE [err |-> "nil", neg |-> neg /\ un.mag # <<>>, mag |-> un.mag]

\* ---------------------------------------------------------------- getServiceAccount
getServiceAccountAnyLen(username) ==
    IF username # <<>> /\ HasPrefix(username, SAPrefix)
    THEN LET parts == Split(username, ":")
         IN IF Len(parts) >= 4 THEN parts[4] ELSE <<>>
    ELSE <<>>

getServiceAccountNs(username) ==
    IF username # <<>> /\ HasPrefix(username, SAPrefix)
    THEN LET parts == Split(username, ":")
         IN IF Len(parts) = 4 THEN parts[3] ELSE <<>>
    ELSE <<>>

\* Get ServiceAccount from API request: the name, or "" (absent)
getServiceAccount(username) ==
    IF username # <<>> /\ HasPrefix(username, SAPrefix)
    THEN LET parts == Split(username, ":")
         IN IF Len(parts) = 4 THEN parts[4] ELSE <<>>
    ELSE <<>>

\* ---------------------------------------------------------------- inputs
Procs == 1..MaxProcs

I500 == [neg |-> FALSE, mag |-> <<"5", "0", "0">>]

\* corev1.PodSecurityContext values: RunAsUser (*int64) and one other field
SecurityContexts == [RunAsUser : {Nil, Some(I500)}, RunAsGroup : {Nil, Some(I500)}]

\* pod.Spec.SecurityContext of the Pods the framework passes in, by value
Shapes == {Nil} \cup {Some(sc) : sc \in SecurityContexts}

ConcShapes == {Nil, Some([RunAsUser |-> Nil, RunAsGroup |-> Some(I500)])}

TailSegs == {S_default, S_buildbot, <<>>}

RECURSIVE Tails(_)
\* the sequences of at most n segments
Tails(n) ==
    IF n = 0 THEN {<<>>}
    ELSE LET shorter == Tails(n - 1)
         IN shorter \cup {Append(t, x) : t \in shorter, x \in TailSegs}

RECURSIVE Join(_)
\* the segments, each preceded by ":"
Join(segs) ==
    IF segs = <<>> THEN <<>> ELSE <<":">> \o Head(segs) \o Join(Tail(segs))

\* UserInfo.Username of the admission requests
Usernames ==
    {S_noColon \o Join(t) : t \in Tails(MaxTail)}
        \cup {<<>>, S_admin, S_node, S_sax, SubSeq(SAPrefix, 1, 6)}

ConcUsernames ==
    {S_admin, SAPrefix \o S_buildbot \o <<":">> \o S_buildbot}

\* values a mapping entry may hold
Values ==
    {<<>>, S_1001, S_nan, <<"-", "5">>, <<"+", "7">>, <<"0", "0", "7">>, <<"-", "0">>,
     S_maxI64, S_maxI64p1, S_minI64, S_minI64m1, S_huge, <<"1", "_", "0">>, <<"-">>,
     <<"1", "2", "a">>}

ConcValues == {S_1001, <<"-", "5">>}

\* a ConfigMap's Data (map[string]string) as a set of <<key, value>> entries
Datas(values) == {{}} \cup {{<<S_buildbot, v>>} : v \in values}

\* the cluster's ConfigMaps, <<namespace, name>> -> Data: none, or the mapping
Stores(values) ==
    {[k \in {} |-> {}]}
        \cup {[k \in {<<namespaceInit, configMapNameInit>>} |-> d] : d \in Datas(values)}

\* ---------------------------------------------------------------- state
VARIABLES
    namespace,      \* package variable namespace
    configMapName,  \* package variable configMapName
    mhd,            \* the mountHomeDirectory value the framework holds
    store,          \* the cluster's ConfigMaps: <<namespace, name>> -> Data
    updates,        \* changes made to the store so far
    pods,           \* heap of corev1.Pod objects: address -> [sc: address or Nil]
    scs,            \* heap of corev1.PodSecurityContext objects
    inv             \* the invocations of Mutate, one per process

vars == <<namespace, configMapName, mhd, store, updates, pods, scs, inv>>

\* pc, the arguments (pod, username), the locals of Mutate and setUID, the
\* returned (ret, err), and what the invocation did so far: calls (external
\* calls and their errors), queried (namespaces fetched from), keys (keys looked up), parsed
\* (ParseInt was called), orig (the input Pod as passed), first (the result
\* of the first application, in the second)
Idle ==
    [pc |-> "idle", round |-> 0, username |-> <<>>, pod |-> Nil, orig |-> Nil,
     Logger |-> <<>>, mpod |-> Nil, serviceAccount |-> <<>>, data |-> {},
     ret |-> Nil, err |-> "nil", calls |-> <<>>, keys |-> {}, parsed |-> FALSE,
     queried |-> <<>>, first |-> Nil]

InitWith(values) ==
    /\ namespace = namespaceInit
    /\ configMapName = configMapNameInit
    /\ mhd = [Logger |-> <<>>]
    /\ store \in Stores(values)
    /\ updates = 0
    /\ pods = [a \in {} |-> Nil]
    /\ scs = [a \in {} |-> Nil]
    /\ inv = [p \in Procs |-> Idle]

Init == InitWith(Values)

InitConc == InitWith(ConcValues)

\* pod.Spec.SecurityContext of the Pod at address a, by value
PodVal(ps, ss, a) ==
    IF ps[a].sc = Nil THEN Nil ELSE Some(ss[ps[a].sc])

\* ---------------------------------------------------------------- the framework's call
\* The admission framework decodes a Pod and an AdmissionRequest and calls Mutate.
Call(p, usernames, shapes) ==
    /\ inv[p].pc = "idle"
    /\ \E u \in usernames, sh \in shapes :
        LET a == <<p, 0>>
        IN /\ pods' = (a :> [sc |-> IF sh = Nil THEN Nil ELSE a]) @@ pods
           /\ scs' = IF sh = Nil THEN scs ELSE (a :> Deref(sh)) @@ scs
           /\ inv' = [inv EXCEPT ![p] = [Idle EXCEPT !.pc = "Mutate", !.round = 1,
                                           !.username = u, !.pod = a, !.orig = sh]]
    /\ UNCHANGED <<namespace, configMapName, mhd, store, updates>>

\* ---------------------------------------------------------------- Mutate
ShallowCopy(ps, ss, src, dst) ==
    [pods |-> (dst :> ps[src]) @@ ps, scs |-> ss]

\* pod.DeepCopy(): a new Pod at dst with its own copy of the security context
DeepCopy(ps, ss, src, dst) ==
    [pods |-> (dst :> [sc |-> IF ps[src].sc = Nil THEN Nil ELSE dst]) @@ ps,
     scs |-> IF ps[src].sc = Nil THEN ss ELSE (dst :> ss[ps[src].sc]) @@ ss]

AlwaysNeedsUID(ss, securityContext) == TRUE

NeedsUIDInverted(ss, securityContext) ==
    securityContext = Nil \/ ss[securityContext].RunAsUser # Nil

\* securityContext == nil || securityContext.RunAsUser == nil
NeedsUID(ss, securityContext) ==
    securityContext = Nil \/ ss[securityContext].RunAsUser = Nil

\* mhd.Logger.WithField("mutation", mhd.Name())
WithField(logger, k, v) == Append(logger, <<k, v>>)

NamespaceSetByExtract(ns, username) ==
    IF getServiceAccount(username) # <<>> THEN Split(username, ":")[3] ELSE ns

\* the package variable namespace after getServiceAccount ran: its
\* "namespace := parts[2]" declares a local
NamespaceAfterExtract(ns, username) == ns

\* the receiver after "mhd.Logger = ...": Mutate has a value receiver, so the
\* assignment goes to its copy and the framework's value keeps its Logger
ReceiverAfterAssign(shared, local) == shared

\* Mutate up to the call of setUID (lines 36-47) or, when setUID is not
\* called, to its return (line 53)
Mutate(p) ==
    /\ inv[p].pc = "Mutate"
    /\ LET i == inv[p]
           logger == WithField(mhd.Logger, "mutation", Name)
           dst == <<p, i.round>>
           heap == DeepCopy(pods, scs, i.pod, dst)
           securityContext == pods[i.pod].sc
           serviceAccount == getServiceAccount(i.username)
       IN /\ pods' = heap.pods
          /\ scs' = heap.scs
          /\ mhd' = ReceiverAfterAssign(mhd, [mhd EXCEPT !.Logger = logger])
          /\ namespace' = NamespaceAfterExtract(namespace, i.username)
          /\ IF NeedsUID(scs, securityContext) /\ serviceAccount # <<>>
             THEN inv' = [inv EXCEPT ![p].pc = "initClient", ![p].Logger = logger,
                                     ![p].mpod = dst,
                                     ![p].serviceAccount = serviceAccount]
             ELSE inv' = [inv EXCEPT ![p].pc = "done", ![p].Logger = logger,
                                     ![p].mpod = dst,
                                     ![p].serviceAccount = serviceAccount,
                                     ![p].ret = dst, ![p].err = "nil"]
    /\ UNCHANGED <<configMapName, store, updates>>

\* ---------------------------------------------------------------- setUID
InitClientErrors == {"nil", "InClusterConfig", "NewForConfig"}

RetryInitClient(err) == IF err = "nil" THEN "getConfigMap" ELSE "initClient"

\* where setUID goes after initClient returned err (lines 58-62)
AfterInitClient(err) == IF err = "nil" THEN "getConfigMap" ELSE "return"

\* client, err := initClient(): rest.InClusterConfig, then kubernetes.NewForConfig
InitClient(p) ==
    /\ inv[p].pc = "initClient"
    /\ \E err \in InitClientErrors :
        LET next == AfterInitClient(err)
        IN inv' = [inv EXCEPT ![p].calls = Append(@, [call |-> "initClient", err |-> err]),
                              ![p].pc = IF next = "return" THEN "done" ELSE next,
                              ![p].ret = Nil,
                              ![p].err = IF next = "return"
                                         THEN "Failed initializing Kubernetes client"
                                         ELSE "nil"]
    /\ UNCHANGED <<namespace, configMapName, mhd, store, updates, pods, scs>>

\* client.CoreV1().ConfigMaps(ns).Get(ctx, name, ...): [err, Data]
Get(st, ns, name, apiErr) ==
    IF apiErr THEN [err |-> "api", Data |-> {}]
    ELSE IF <<ns, name>> \notin DOMAIN st THEN [err |-> "NotFound", Data |-> {}]
    ELSE [err |-> "nil", Data |-> st[<<ns, name>>]]

\* configMap, err := getConfigMap(client) (lines 63-67, 106-114)
GetConfigMap(p) ==
    /\ inv[p].pc = "getConfigMap"
    /\ \E apiErr \in BOOLEAN :
        LET configMap == Get(store, namespace, configMapName, apiErr)
        IN inv' = [inv EXCEPT ![p].calls = Append(@, [call |-> "getConfigMap",
                                                       err |-> configMap.err]),
                              ![p].queried = Append(@, namespace),
                              ![p].data = configMap.Data,
                              ![p].pc = IF configMap.err # "nil" THEN "done"
                                        ELSE "resolve",
                              ![p].ret = Nil,
                              ![p].err = IF configMap.err # "nil"
                                         THEN "Failed setting UID" ELSE "nil"]
    /\ UNCHANGED <<namespace, configMapName, mhd, store, updates, pods, scs>>

\* data[serviceAccount]: "" for a key the map does not hold
Lookup(data, key) ==
    IF \E e \in data : e[1] = key THEN (CHOOSE e \in data : e[1] = key)[2] ELSE <<>>

UnmappedNotChecked(uid) == FALSE

\* uid == "" (line 71)
Unmapped(uid) == uid = <<>>

\* lines 68-84 of setUID and lines 48-53 of Mutate
SetUID(p) ==
    /\ inv[p].pc = "resolve"
    /\ LET i == inv[p]
           uid == Lookup(i.data, i.serviceAccount)
           r == ParseInt(Lookup(i.data, i.serviceAccount))
           existing == pods[i.mpod].sc
       IN IF Unmapped(uid)
          THEN /\ inv' = [inv EXCEPT ![p].keys = @ \cup {i.serviceAccount},
                                     ![p].pc = "done", ![p].ret = Nil,
                                     ![p].err = "has no UID associated with it"]
               /\ scs' = scs
          ELSE IF r.err # "nil"
          THEN /\ inv' = [inv EXCEPT ![p].keys = @ \cup {i.serviceAccount},
                                     ![p].parsed = TRUE,
                                     ![p].pc = "done", ![p].ret = Nil,
                                     ![p].err = "Failed to convert UID to int64"]
               /\ scs' = scs
          ELSE IF existing = Nil
          THEN \* existing.RunAsUser = &uid64 with existing == nil: the goroutine panics
               /\ inv' = [inv EXCEPT ![p].keys = @ \cup {i.serviceAccount},
                                     ![p].parsed = TRUE,
                                     ![p].pc = "panic", ![p].ret = Nil]
               /\ scs' = scs
          ELSE /\ inv' = [inv EXCEPT ![p].keys = @ \cup {i.serviceAccount},
                                     ![p].parsed = TRUE,
                                     ![p].pc = "done", ![p].ret = i.mpod,
                                     ![p].err = "nil"]
               /\ scs' = [scs EXCEPT ![existing].RunAsUser =
                                         Some([neg |-> r.neg, mag |-> r.mag])]
    /\ UNCHANGED <<namespace, configMapName, mhd, store, updates, pods>>

\* ---------------------------------------------------------------- environment
\* The framework applies the mutator again to the Pod it got back, with the
\* same request.
Reapply(p) ==
    /\ inv[p].pc = "done"
    /\ inv[p].round = 1
    /\ inv[p].err = "nil"
    /\ inv' = [inv EXCEPT ![p] = [Idle EXCEPT !.pc = "Mutate", !.round = 2,
                                    !.username = inv[p].username,
                                    !.pod = inv[p].ret,
                                    !.orig = PodVal(pods, scs, inv[p].ret),
                                    !.first = Some(PodVal(pods, scs, inv[p].ret))]]
    /\ UNCHANGED <<namespace, configMapName, mhd, store, updates, pods, scs>>

\* The external system that owns the mapping rewrites, creates or deletes the
\* ConfigMap.
StoreUpdate(values) ==
    /\ updates < MaxUpdates
    /\ \E st \in Stores(values) :
        /\ st # store
        /\ store' = st
    /\ updates' = updates + 1
    /\ UNCHANGED <<namespace, configMapName, mhd, pods, scs, inv>>

Next ==
    \/ Call(1, Usernames, Shapes)
    \/ Mutate(1)
    \/ InitClient(1)
    \/ GetConfigMap(1)
    \/ SetUID(1)
    \/ Reapply(1)
    \/ StoreUpdate(Values)

Spec == Init /\ [][Next]_vars

NextConc ==
    \/ \E p \in Procs : Call(p, ConcUsernames, ConcShapes)
    \/ \E p \in Procs : Mutate(p)
    \/ \E p \in Procs : InitClient(p)
    \/ \E p \in Procs : GetConfigMap(p)
    \/ \E p \in Procs : SetUID(p)
    \/ StoreUpdate(ConcValues)

SpecConc == InitConc /\ [][NextConc]_vars

\* ---------------------------------------------------------------- vocabulary of the properties
\* s is an optional sign and one or more decimal digits, within the int64 range
IsInt64Decimal(s) ==
    /\ s # <<>>
    /\ LET ds == IF s[1] \in {"+", "-"} THEN Tail(s) ELSE s
       IN /\ ds # <<>>
          /\ \A k \in 1..Len(ds) : IsDigit(ds[k])
          /\ IF s[1] = "-" THEN ~MagLess(S_maxI64p1, StripZeros(ds))
             ELSE ~MagLess(S_maxI64, StripZeros(ds))

\* the int64 such a string denotes
Int64Of(s) ==
    LET ds == StripZeros(IF s[1] \in {"+", "-"} THEN Tail(s) ELSE s)
    IN [neg |-> s[1] = "-" /\ ds # <<>>, mag |-> ds]

\* the Pod value v has no RunAsUser
NoRunAsUser(v) == v = Nil \/ Deref(v).RunAsUser = Nil

Colons(u) == Cardinality({k \in 1..Len(u) : u[k] = ":"})

\* u is not a ServiceAccount identity of four segments
NotServiceAccount(u) ==
    \/ Len(u) < Len(SAPrefix)
    \/ \E k \in 1..Len(SAPrefix) : u[k] # SAPrefix[k]
    \/ Colons(u) # 3

Finished(p) == inv[p].pc \in {"done", "panic"}

\* the invocation fetched the mapping and went on to look its principal up
Fetched(p) ==
    /\ Len(inv[p].calls) = 2
    /\ inv[p].calls[2].err = "nil"

\* the entry of the fetched mapping for the extracted ServiceAccount ("" if none)
Entries(p) == {e \in inv[p].data : e[1] = inv[p].serviceAccount}

ResultVal(p) == PodVal(pods, scs, inv[p].ret)

\* ---------------------------------------------------------------- C1
\* C1: a Pod with no RunAsUser (security context without it, or no security
\* context at all) and a request of a ServiceAccount whose fetched mapping
\* entry is a well-formed int64 decimal v: Mutate returns no error and a Pod
\* whose security context has RunAsUser = v.
C1_SetsRunAsUser ==
    \A p \in Procs :
        (/\ Finished(p)
         /\ inv[p].round = 1
         /\ NoRunAsUser(inv[p].orig)
         /\ Fetched(p)
         /\ \E e \in Entries(p) : IsInt64Decimal(e[2]))
        => /\ inv[p].pc = "done"
           /\ inv[p].err = "nil"
           /\ inv[p].ret # Nil
           /\ ResultVal(p) # Nil
           /\ \A e \in Entries(p) : Deref(ResultVal(p)).RunAsUser = Some(Int64Of(e[2]))

\* ---------------------------------------------------------------- C2
\* C2: for a Pod that already has RunAsUser, Mutate returns a Pod equal to
\* the input and no error, and the invocation never initialises a client nor
\* fetches the mapping.
C2_RunAsUserKept ==
    \A p \in Procs :
        (inv[p].pc # "idle" /\ ~NoRunAsUser(inv[p].orig))
        => /\ inv[p].pc \in {"Mutate", "done"}
           /\ inv[p].calls = <<>>
           /\ inv[p].keys = {}
           /\ inv[p].pc = "done"
              => /\ inv[p].err = "nil"
                 /\ inv[p].ret # Nil
                 /\ ResultVal(p) = inv[p].orig

C2_Witness ==
    /\ inv[1].pc = "done"
    /\ inv[1].round = 1
    /\ ~NoRunAsUser(inv[1].orig)
    /\ inv[1].username = SAPrefix \o S_default \o <<":">> \o S_buildbot
    /\ Lookup(Get(store, namespace, configMapName, FALSE).Data, S_buildbot) = S_1001

\* ---------------------------------------------------------------- C3
\* C3: a username without the ServiceAccount prefix, or with it but not of
\* exactly four segments: nothing is extracted, and Mutate returns the Pod
\* unchanged without error and without any call to the store, whatever the
\* Pod's security context.
C3_NotServiceAccountNoOp ==
    \A p \in Procs :
        (inv[p].pc # "idle" /\ NotServiceAccount(inv[p].username))
        => /\ inv[p].pc \in {"Mutate", "done"}
           /\ inv[p].calls = <<>>
           /\ inv[p].keys = {}
           /\ inv[p].pc = "done"
              => /\ inv[p].serviceAccount = <<>>
                 /\ inv[p].err = "nil"
                 /\ inv[p].ret # Nil
                 /\ ResultVal(p) = inv[p].orig

C3_Witness ==
    /\ inv[1].pc = "done"
    /\ inv[1].orig = Nil
    /\ inv[1].username = SAPrefix \o S_default \o <<":">> \o S_buildbot \o <<":">> \o S_buildbot
    /\ Lookup(Get(store, namespace, configMapName, FALSE).Data, S_buildbot) = S_1001

\* ---------------------------------------------------------------- C4
\* C4: for a username system:serviceaccount:<ns>:<name> and a Pod without
\* RunAsUser, the extracted name is <name>, no other key is ever looked up,
\* and an invocation that fetched the mapping looked <name> up.
C4_ExtractsName ==
    \A p \in Procs : \A ns \in TailSegs, name \in TailSegs :
        (/\ inv[p].pc \notin {"idle", "Mutate"}
         /\ inv[p].username = SAPrefix \o ns \o <<":">> \o name
         /\ NoRunAsUser(inv[p].orig))
        => /\ inv[p].serviceAccount = name
           /\ inv[p].keys \subseteq {name}
           /\ (Finished(p) /\ Fetched(p)) => inv[p].keys = {name}

C4_Witness ==
    /\ inv[1].pc = "done"
    /\ inv[1].username = SAPrefix \o S_default \o <<":">> \o S_buildbot
    /\ inv[1].keys = {S_buildbot}
    /\ inv[1].err = "nil"

\* ---------------------------------------------------------------- C5
\* C5: when the fetched mapping has no entry for the extracted ServiceAccount,
\* or an empty one, Mutate returns the unmapped-principal error and no Pod,
\* and ParseInt is never called.
C5_Unmapped ==
    \A p \in Procs :
        (/\ Finished(p)
         /\ NoRunAsUser(inv[p].orig)
         /\ Fetched(p)
         /\ \A e \in Entries(p) : e[2] = <<>>)
        => /\ inv[p].pc = "done"
           /\ inv[p].err = "has no UID associated with it"
           /\ inv[p].ret = Nil
           /\ ~inv[p].parsed

C5_Witness ==
    /\ inv[1].pc = "done"
    /\ Fetched(1)
    /\ inv[1].serviceAccount = S_default
    /\ inv[1].data = {<<S_buildbot, S_1001>>}
    /\ inv[1].err # "nil"

C7_InputUntouched ==
    \A p \in Procs :
        inv[p].pc # "idle"
        => /\ PodVal(pods, scs, inv[p].pod) = inv[p].orig
           /\ inv[p].mpod # Nil
              => /\ inv[p].mpod # inv[p].pod
                 /\ pods[inv[p].mpod].sc # Nil => pods[inv[p].mpod].sc # pods[inv[p].pod].sc
                 /\ \A q \in Procs \ {p} : inv[p].mpod \notin {inv[q].pod, inv[q].mpod}

C7_Witness ==
    /\ inv[1].pc = "done"
    /\ inv[1].round = 1
    /\ inv[1].ret # Nil
    /\ inv[1].orig # Nil
    /\ ResultVal(1) # inv[1].orig

\* ---------------------------------------------------------------- C8
\* C8: applying Mutate again, with the same request, to the Pod a successful
\* Mutate returned gives an equal Pod and no error, and makes no call to the
\* store, even when the store changed in between.
C8_Idempotent ==
    \A p \in Procs :
        inv[p].round = 2
        => /\ inv[p].pc \in {"Mutate", "done"}
           /\ inv[p].calls = <<>>
           /\ inv[p].keys = {}
           /\ inv[p].pc = "done"
              => /\ inv[p].err = "nil"
                 /\ inv[p].ret # Nil
                 /\ Some(ResultVal(p)) = inv[p].first

C8_Witness ==
    /\ inv[1].round = 2
    /\ inv[1].pc = "done"
    /\ inv[1].first = Some(Some([RunAsUser |-> Some(Int64Of(S_1001)), RunAsGroup |-> Nil]))
    /\ Lookup(Get(store, namespace, configMapName, FALSE).Data, S_buildbot) = <<"-", "5">>

\* ---------------------------------------------------------------- C9
\* C9: an invocation calls initClient, then getConfigMap, each at most once;
\* a call that fails is the last one, and then Mutate has returned an error
\* and no Pod without looking anything up or parsing.
C9_CallsOnceInOrder ==
    \A p \in Procs :
        /\ Len(inv[p].calls) <= 2
        /\ \A k \in 1..Len(inv[p].calls) :
            /\ inv[p].calls[k].call = <<"initClient", "getConfigMap">>[k]
            /\ inv[p].calls[k].err # "nil"
               => /\ k = Len(inv[p].calls)
                  /\ inv[p].pc = "done"
                  /\ inv[p].err # "nil"
                  /\ inv[p].ret = Nil
                  /\ inv[p].keys = {}
                  /\ ~inv[p].parsed

C9_Witness ==
    /\ inv[1].pc = "done"
    /\ Len(inv[1].calls) = 2
    /\ inv[1].calls[2].err = "NotFound"

\* ---------------------------------------------------------------- C10
\* what Mutate returns for the Pod value v and the username u when the
\* external calls behave as in calls and the mapping fetched is data
Alone(v, u, calls, data) ==
    LET name == IF NotServiceAccount(u) THEN <<>> ELSE Split(u, ":")[4]
        entries == {e \in data : e[1] = name /\ e[2] # <<>>}
    IN IF ~NoRunAsUser(v) \/ name = <<>> THEN [pc |-> "done", failed |-> FALSE, val |-> v]
       ELSE IF \E k \in 1..Len(calls) : calls[k].err # "nil"
            THEN [pc |-> "done", failed |-> TRUE, val |-> Nil]
       ELSE IF entries = {} \/ \E e \in entries : ~IsInt64Decimal(e[2])
            THEN [pc |-> "done", failed |-> TRUE, val |-> Nil]
       ELSE IF v = Nil THEN [pc |-> "panic", failed |-> FALSE, val |-> Nil]
       ELSE [pc |-> "done", failed |-> FALSE,
             val |-> Some([Deref(v) EXCEPT !.RunAsUser =
                              Some(Int64Of((CHOOSE e \in entries : TRUE)[2]))])]

\* C10: under any interleaving, the package variables and the component's
\* logger keep their initial values, every fetch asks for the configured
\* namespace, and each finished invocation returned what it returns running
\* alone on its own Pod, request and fetched mapping.
C10_NoInterference ==
    /\ namespace = namespaceInit
    /\ configMapName = configMapNameInit
    /\ mhd = [Logger |-> <<>>]
    /\ \A p \in Procs :
        /\ \A k \in 1..Len(inv[p].queried) : inv[p].queried[k] = namespaceInit
        /\ Finished(p)
           => LET a == Alone(inv[p].orig, inv[p].username, inv[p].calls, inv[p].data)
              IN /\ inv[p].pc = a.pc
                 /\ (inv[p].err # "nil") = a.failed
                 /\ (IF inv[p].ret = Nil THEN Nil ELSE ResultVal(p)) = a.val
                 /\ PodVal(pods, scs, inv[p].pod) = inv[p].orig

C10_Witness ==
    /\ \A p \in {1, 2} : inv[p].pc = "done" /\ inv[p].err = "nil" /\ inv[p].keys # {}
    /\ inv[1].data # inv[2].data
    /\ ResultVal(1) # ResultVal(2)

====
